---------------------------- MODULE Spec2Model ----------------------------
(***************************************************************************)
(* Model of the segmented collection manager of gausk/qdrant:              *)
(*   lib/collection/src/segment_manager/simple_segment_searcher.rs         *)
(*   lib/collection/src/segment_manager/simple_segment_updater.rs          *)
(*                                                                         *)
(* The Segment and the SegmentHolder primitives (apply_points,             *)
(* apply_segments, read_points, random_segment) and peek_top_scores_       *)
(* iterable are called by these files but defined elsewhere in the         *)
(* repository; they are modelled from spec.md (sections 3, 4.1, 4.2, 6).   *)
(*                                                                         *)
(* Version rule of a segment.  spec.md: "a call with op <= version() is a  *)
(* no-op returning false", "each Segment records the largest SeqNum it has *)
(* successfully applied", and one update call passes the same op_num to    *)
(* many segment calls (simple_segment_updater.rs:50-53, 64-67, 81-88).     *)
(* A segment therefore compares op with the version it had when the        *)
(* update call began, and version() reads op once the update call that     *)
(* wrote to the segment has completed.                                     *)
(***************************************************************************)
EXTENDS Integers, Sequences, FiniteSets, TLC

\* ------------------------------------------------------------------ bounds
\* Largest operation sequence number (SeqNumberType) a caller supplies.
MaxOp == 2
\* Longest id list of one request.
MaxLen == 2
\* Largest `top` of a search.
MaxTop == 2

\* ------------------------------------------------------------- value sets
SegIds == {"A", "B"}
Ids == {1, 2}
\* One-dimensional vectors; a score is computed from the stored vector.
Vectors == {1, 2}
Keys == {"color"}
Values == {"red"}
Distances == {"Dot", "Euclid"}
Query == 1

Ops == 1..MaxOp
Versions == 0..MaxOp

Range(f) == {f[x] : x \in DOMAIN f}

SeqsUpTo(S, n) == UNION {[1..k -> S] : k \in 0..n}

IdLists == SeqsUpTo(Ids, MaxLen)

\* Payload: a map from some payload keys to values.
Payloads == UNION {[K -> Values] : K \in SUBSET Keys}

EmptyPayload == [k \in {} |-> "red"]

\* The segments whose vectors are in VS and whose payloads are in PS; the
\* points of a segment are a map from the ids it contains.
SegmentsOf(VS, PS) ==
    [version : Versions,
     points : UNION {[P -> [vector : VS, payload : PS]] : P \in SUBSET Ids}]

\* ---------------------------------------------------- Segment (spec.md 3, 6)
has_point(seg, id) == id \in DOMAIN seg.points

Put(points, id, data) ==
    [x \in (DOMAIN points) \cup {id} |-> IF x = id THEN data ELSE points[x]]

Remove(points, id) == [x \in (DOMAIN points) \ {id} |-> points[x]]

\* A segment as seen through its write guard during one update call:
\* `version` is the version the segment had when the call began, `written`
\* says whether a call of this update has been applied to it.
WriteView(seg) == [version |-> seg.version, points |-> seg.points, written |-> FALSE]

\* The segment after the update call: version() is op once it was written.
Commit(w, op) ==
    [version |-> IF w.written THEN op ELSE w.version, points |-> w.points]

\* "a call with op <= version() is a no-op returning false"
skip_by_version(w, op) == op <= w.version

upsert_point(w, op, id, vec) ==
    IF skip_by_version(w, op)
    THEN [w |-> w, res |-> FALSE]
    ELSE [w |-> [w EXCEPT !.points =
                    Put(w.points, id,
                        [vector |-> vec,
                         payload |-> IF id \in DOMAIN w.points
                                     THEN w.points[id].payload
                                     ELSE EmptyPayload]),
                   !.written = TRUE],
          res |-> TRUE]

delete_point(w, op, id) ==
    IF skip_by_version(w, op)
    THEN [w |-> w, res |-> FALSE]
    ELSE [w |-> [w EXCEPT !.points = Remove(w.points, id), !.written = TRUE],
          res |-> id \in DOMAIN w.points]

SetKey(payload, key, value) ==
    [k \in (DOMAIN payload) \cup {key} |-> IF k = key THEN value ELSE payload[k]]

DropKey(payload, key) == [k \in (DOMAIN payload) \ {key} |-> payload[k]]

seg_set_payload(w, op, id, key, value) ==
    IF skip_by_version(w, op) \/ id \notin DOMAIN w.points
    THEN [w |-> w, res |-> FALSE]
    ELSE [w |-> [w EXCEPT !.points[id].payload = SetKey(@, key, value),
                          !.written = TRUE],
          res |-> TRUE]

seg_delete_payload(w, op, id, key) ==
    IF skip_by_version(w, op) \/ id \notin DOMAIN w.points
    THEN [w |-> w, res |-> FALSE]
    ELSE [w |-> [w EXCEPT !.points[id].payload = DropKey(@, key),
                          !.written = TRUE],
          res |-> TRUE]

seg_clear_payload(w, op, id) ==
    IF skip_by_version(w, op) \/ id \notin DOMAIN w.points
    THEN [w |-> w, res |-> FALSE]
    ELSE [w |-> [w EXCEPT !.points[id].payload = EmptyPayload,
                          !.written = TRUE],
          res |-> TRUE]

seg_wipe_payload(w, op) ==
    IF skip_by_version(w, op)
    THEN [w |-> w, res |-> FALSE]
    ELSE [w |-> [w EXCEPT !.points =
                    [x \in DOMAIN w.points |-> [w.points[x] EXCEPT !.payload = EmptyPayload]],
                   !.written = TRUE],
          res |-> TRUE]

\* ------------------------------------------------ OperationResult<usize>
Ok(n) == [tag |-> "Ok", val |-> n]
NotFound(id) == [tag |-> "NotFound", val |-> id]
ServiceError == [tag |-> "ServiceError", val |-> 0]

RECURSIVE SumOver(_, _)
SumOver(f, S) ==
    IF S = {} THEN 0
    ELSE LET x == CHOOSE y \in S : TRUE IN f[x] + SumOver(f, S \ {x})

\* --------------------------------- closures of simple_segment_updater.rs
\* The closures passed to apply_points; m describes the closure and what it
\* captured.  Each returns the write view and the closure's Ok(bool).
upsert_closure(w, op, id, points_map) == upsert_point(w, op, id, points_map[id])

delete_closure(w, op, id) == delete_point(w, op, id)

RECURSIVE set_payload_closure(_, _, _, _, _)
set_payload_closure(w, op, id, payload, keys) ==
    IF keys = {} THEN [w |-> w, res |-> TRUE]
    ELSE LET key == CHOOSE k \in keys : TRUE
             r == seg_set_payload(w, op, id, key, payload[key])
             rest == set_payload_closure(r.w, op, id, payload, keys \ {key})
         IN [w |-> rest.w, res |-> r.res /\ rest.res]

RECURSIVE delete_payload_closure(_, _, _, _, _)
delete_payload_closure(w, op, id, keys, i) ==
    IF i > Len(keys) THEN [w |-> w, res |-> TRUE]
    ELSE LET r == seg_delete_payload(w, op, id, keys[i])
             rest == delete_payload_closure(r.w, op, id, keys, i + 1)
         IN [w |-> rest.w, res |-> r.res /\ rest.res]

clear_payload_closure(w, op, id) == seg_clear_payload(w, op, id)

Mutate(m, w, op, id) ==
    CASE m.kind = "upsert" -> upsert_closure(w, op, id, m.points_map)
      [] m.kind = "delete" -> delete_closure(w, op, id)
      [] m.kind = "set_payload" -> set_payload_closure(w, op, id, m.payload, DOMAIN m.payload)
      [] m.kind = "delete_payload" -> delete_payload_closure(w, op, id, m.keys, 1)
      [] m.kind = "clear_payload" -> clear_payload_closure(w, op, id)

\* --------------------------------------------- SegmentHolder (spec.md 4.1)
\* One (id, segment) visit of apply_points: mutate is invoked when the
\* segment contains the id; the closure records the id as touched.
MutateStep(acc, op, id, m) ==
    IF id \notin DOMAIN acc.w.points THEN acc
    ELSE LET r == Mutate(m, acc.w, op, id)
         IN [w |-> r.w,
             count |-> acc.count + (IF r.res THEN 1 ELSE 0),
             touched |-> acc.touched \cup {id}]

\* "Segments whose version() >= op are skipped entirely"; within one
\* segment the ids are visited in input order.
ApplyInSegment(w, op, ids, m) ==
    IF w.version >= op
    THEN [w |-> w, count |-> 0, touched |-> {}]
    ELSE LET fold[i \in 0..Len(ids)] ==
                 IF i = 0 THEN [w |-> w, count |-> 0, touched |-> {}]
                 ELSE MutateStep(fold[i - 1], op, ids[i], m)
         IN fold[Len(ids)]

\* views: the write view of every segment of the holder.  Returns the
\* views, the count of (id, segment) pairs where mutate returned true and
\* the ids the closure recorded.
apply_points(views, op, ids, m) ==
    LET per == [s \in DOMAIN views |-> ApplyInSegment(views[s], op, ids, m)]
    IN [views |-> [s \in DOMAIN views |-> per[s].w],
        count |-> SumOver([s \in DOMAIN views |-> per[s].count], DOMAIN views),
        touched |-> UNION {per[s].touched : s \in DOMAIN views}]

\* "like apply_points but iterates once per segment, no id filter"
apply_segments_wipe(views, op) ==
    LET per == [s \in DOMAIN views |->
                   IF views[s].version >= op
                   THEN [w |-> views[s], res |-> FALSE]
                   ELSE seg_wipe_payload(views[s], op)]
    IN [views |-> [s \in DOMAIN views |-> per[s].w],
        count |-> Cardinality({s \in DOMAIN views : per[s].res})]

Views(segs) == [s \in DOMAIN segs |-> WriteView(segs[s])]

CommitAll(views, op) == [s \in DOMAIN views |-> Commit(views[s], op)]

\* ------------------------------------------------- SimpleSegmentUpdater
\* check_unprocessed_points reporting the last missed id of the list.
check_unprocessed_points_last_missed(points, processed) ==
    LET missing == {i \in 1..Len(points) : points[i] \notin processed}
    IN IF missing = {}
       THEN Ok(Cardinality(processed))
       ELSE NotFound(points[CHOOSE i \in missing : \A j \in missing : j <= i])

\* simple_segment_updater.rs:20-30
check_unprocessed_points(points, processed) ==
    LET missing == {i \in 1..Len(points) : points[i] \notin processed}
    IN IF missing = {}
       THEN Ok(Cardinality(processed))
       ELSE NotFound(points[CHOOSE i \in missing : \A j \in missing : i <= j])

\* The `check_unprocessed_points(..)?; Ok(res)` tail of the payload operations.
CheckedResult(points, a) ==
    LET c == check_unprocessed_points(points, a.touched)
    IN IF c.tag = "Ok" THEN Ok(a.count) ELSE c

\* ids.iter().cloned().zip(vectors).collect(): a later pair of the same id
\* replaces an earlier one.
PointsMap(ids, vectors) ==
    [id \in Range(ids) |->
        vectors[CHOOSE i \in 1..Len(ids) :
                   ids[i] = id /\ \A j \in 1..Len(ids) : ids[j] = id => j <= i]]

\* delete_points requiring, as the payload operations do, that every id was
\* touched.
delete_points_reports_missed(segs, op, ids) ==
    LET a == apply_points(Views(segs), op, ids, [kind |-> "delete"])
    IN [segs |-> CommitAll(a.views, op), result |-> CheckedResult(ids, a), touched |-> a.touched]

\* delete_points calling the segments with a sequence number above every
\* version instead of op.
delete_points_as_newest_op(segs, op, ids) ==
    LET a == apply_points(Views(segs), MaxOp + 1, ids, [kind |-> "delete"])
    IN [segs |-> CommitAll(a.views, op), result |-> Ok(a.count), touched |-> a.touched]

\* simple_segment_updater.rs:33-38
delete_points(segs, op, ids) ==
    LET a == apply_points(Views(segs), op, ids, [kind |-> "delete"])
    IN [segs |-> CommitAll(a.views, op), result |-> Ok(a.count), touched |-> a.touched]

\* The residual inserts into the segment random_segment() returned.
RECURSIVE InsertNew(_, _, _, _, _)
InsertNew(w, op, new_point_ids, points_map, i) ==
    IF i > Len(new_point_ids) THEN w
    ELSE InsertNew(upsert_point(w, op, new_point_ids[i], points_map[new_point_ids[i]]).w,
                   op, new_point_ids, points_map, i + 1)

\* upsert_points counting the residual inserts as well.
upsert_points_counts_inserts(segs, op, ids, vectors, pick) ==
    LET points_map == PointsMap(ids, vectors)
        a == apply_points(Views(segs), op, ids, [kind |-> "upsert", points_map |-> points_map])
        new_point_ids == SelectSeq(ids, LAMBDA x : x \notin a.touched)
    IN IF pick \notin DOMAIN segs
       THEN [segs |-> CommitAll(a.views, op), result |-> ServiceError, touched |-> a.touched]
       ELSE [segs |-> CommitAll([a.views EXCEPT ![pick] =
                                    InsertNew(@, op, new_point_ids, points_map, 1)], op),
             result |-> Ok(a.count + Len(new_point_ids)),
             touched |-> a.touched]

\* upsert_points treating the ids no segment was visited for as the payload
\* operations do: they are reported, not inserted.
upsert_points_reports_missed(segs, op, ids, vectors, pick) ==
    LET points_map == PointsMap(ids, vectors)
        a == apply_points(Views(segs), op, ids, [kind |-> "upsert", points_map |-> points_map])
    IN IF pick \notin DOMAIN segs
       THEN [segs |-> CommitAll(a.views, op), result |-> ServiceError, touched |-> a.touched]
       ELSE [segs |-> CommitAll(a.views, op),
             result |-> CheckedResult(ids, a),
             touched |-> a.touched]

\* upsert_points with the residual filter inverted: the ids apply_points
\* touched, not the untouched ones, go to the picked segment.
upsert_points_filter_inverted(segs, op, ids, vectors, pick) ==
    LET points_map == PointsMap(ids, vectors)
        a == apply_points(Views(segs), op, ids, [kind |-> "upsert", points_map |-> points_map])
        new_point_ids == SelectSeq(ids, LAMBDA x : x \in a.touched)
    IN IF pick \notin DOMAIN segs
       THEN [segs |-> CommitAll(a.views, op), result |-> ServiceError, touched |-> a.touched]
       ELSE [segs |-> CommitAll([a.views EXCEPT ![pick] =
                                    InsertNew(@, op, new_point_ids, points_map, 1)], op),
             result |-> Ok(a.count),
             touched |-> a.touched]

\* simple_segment_updater.rs:44-71.  pick is what random_segment() returned:
\* a segment of the holder, or "none" when the holder is empty.
upsert_points(segs, op, ids, vectors, pick) ==
    LET points_map == PointsMap(ids, vectors)
        a == apply_points(Views(segs), op, ids, [kind |-> "upsert", points_map |-> points_map])
        new_point_ids == SelectSeq(ids, LAMBDA x : x \notin a.touched)
    IN IF pick \notin DOMAIN segs
       THEN [segs |-> CommitAll(a.views, op), result |-> ServiceError, touched |-> a.touched]
       ELSE [segs |-> CommitAll([a.views EXCEPT ![pick] =
                                    InsertNew(@, op, new_point_ids, points_map, 1)], op),
             result |-> Ok(a.count),
             touched |-> a.touched]

\* set_payload checking for missed ids before it writes: a request that
\* misses an id changes nothing.
set_payload_all_or_nothing(segs, op, payload, points) ==
    LET a == apply_points(Views(segs), op, points, [kind |-> "set_payload", payload |-> payload])
        result == CheckedResult(points, a)
    IN [segs |-> IF result.tag = "NotFound" THEN segs ELSE CommitAll(a.views, op),
        result |-> result, touched |-> a.touched]

\* simple_segment_updater.rs:73-92
set_payload(segs, op, payload, points) ==
    LET a == apply_points(Views(segs), op, points, [kind |-> "set_payload", payload |-> payload])
    IN [segs |-> CommitAll(a.views, op), result |-> CheckedResult(points, a), touched |-> a.touched]

\* simple_segment_updater.rs:94-114
delete_payload(segs, op, points, keys) ==
    LET a == apply_points(Views(segs), op, points, [kind |-> "delete_payload", keys |-> keys])
    IN [segs |-> CommitAll(a.views, op), result |-> CheckedResult(points, a), touched |-> a.touched]

\* simple_segment_updater.rs:116-131
clear_payload(segs, op, points) ==
    LET a == apply_points(Views(segs), op, points, [kind |-> "clear_payload"])
    IN [segs |-> CommitAll(a.views, op), result |-> CheckedResult(points, a), touched |-> a.touched]

\* simple_segment_updater.rs:133-138
wipe_payload(segs, op) ==
    LET a == apply_segments_wipe(Views(segs), op)
    IN [segs |-> CommitAll(a.views, op), result |-> Ok(a.count), touched |-> {}]

\* ------------------------------------------------- SimpleSegmentSearcher
\* Score of a stored vector against the query under the configured
\* distance: dot product (larger is better) or squared Euclidean distance
\* (smaller is better).
Score(vec, distance) ==
    IF distance = "Dot" THEN vec * Query ELSE (vec - Query) * (vec - Query)

ScoredPoint(id, score) == [idx |-> id, score |-> score]

Better(a, b, distance) ==
    IF distance = "Dot" THEN a.score > b.score ELSE a.score < b.score

Min(a, b) == IF a <= b THEN a ELSE b

\* Every best-first list of the `top` best elements of the set S of scored
\* points (ties may come in any order).
TopLists(S, top, distance) ==
    LET k == Min(top, Cardinality(S))
    IN {r \in [1..k -> S] :
          /\ \A i, j \in 1..k : i < j => r[i] /= r[j] /\ ~Better(r[j], r[i], distance)
          /\ \A x \in S \ Range(r) : \A i \in 1..k : ~Better(x, r[i], distance)}

Filters == {"none"} \cup Keys

\* A filter is a payload condition: the point carries the key.
Passes(data, filter) == filter = "none" \/ filter \in DOMAIN data.payload

\* Segment::search: the lists one segment may answer a query with.
segment_search(seg, filter, top, distance) ==
    TopLists({ScoredPoint(id, Score(seg.points[id].vector, distance)) :
                 id \in {x \in DOMAIN seg.points : Passes(seg.points[x], filter)}},
             top, distance)

\* peek_top_scores_iterable over a stream of scored points.
peek_top_scores_iterable(stream, top, distance) == TopLists(Range(stream), top, distance)

RECURSIVE Flatten(_)
Flatten(lists) ==
    IF lists = <<>> THEN <<>> ELSE Head(lists) \o Flatten(Tail(lists))

\* The filter keeping an idx already seen: nothing is dropped.
Dedup_keeps_seen(stream, seen_idx) == stream

\* simple_segment_searcher.rs:67-78: the filter over the flattened results
\* keeps a scored point iff its idx was not seen before.
RECURSIVE Dedup(_, _)
Dedup(stream, seen_idx) ==
    IF stream = <<>> THEN <<>>
    ELSE IF Head(stream).idx \in seen_idx
         THEN Dedup(Tail(stream), seen_idx)
         ELSE <<Head(stream)>> \o Dedup(Tail(stream), seen_idx \cup {Head(stream).idx})

\* join_all in place of try_join_all, the failed tasks' results dropped.
JoinAll_ignoring_failures(order, per, failed) ==
    LET ok_order == SelectSeq(order, LAMBDA s : s \notin failed)
    IN [ok |-> TRUE, lists |-> [i \in 1..Len(ok_order) |-> per[ok_order[i]]]]

\* try_join_all(..) and .unwrap() (simple_segment_searcher.rs:65-66):
\* failed is the set of segments whose search task returned Err.
JoinAll(order, per, failed) ==
    IF failed /= {}
    THEN [ok |-> FALSE, lists |-> <<>>]
    ELSE [ok |-> TRUE, lists |-> [i \in 1..Len(order) |-> per[order[i]]]]

\* search taking the top of the flattened results before it drops the
\* duplicates.
search_top_before_dedup(order, per, failed, top, distance) ==
    LET joined == JoinAll(order, per, failed)
    IN IF ~joined.ok
       THEN {[panic |-> TRUE, list |-> <<>>]}
       ELSE {[panic |-> FALSE, list |-> Dedup(r, {})] :
                r \in peek_top_scores_iterable(Flatten(joined.lists), top, distance)}

\* simple_segment_searcher.rs:50-82.  order is the order in which the
\* holder iterates its segments, per the list each segment answered.
\* The set of outcomes: a panic, or a result list.
search(order, per, failed, top, distance) ==
    LET joined == JoinAll(order, per, failed)
    IN IF ~joined.ok
       THEN {[panic |-> TRUE, list |-> <<>>]}
       ELSE {[panic |-> FALSE, list |-> r] :
                r \in peek_top_scores_iterable(Dedup(Flatten(joined.lists), {}), top, distance)}

Perms(S) == {f \in [1..Cardinality(S) -> S] : \A i, j \in DOMAIN f : i /= j => f[i] /= f[j]}

None == [some |-> FALSE]
Some(x) == [some |-> TRUE, val |-> x]

\* The Record built without looking at with_vector: the vector is always
\* there.
Record_always_with_vector(id, seg, with_payload, with_vector) ==
    [id |-> id,
     payload |-> IF with_payload THEN Some(seg.points[id].payload) ELSE None,
     vector |-> Some(seg.points[id].vector)]

\* simple_segment_searcher.rs:90-94
Record(id, seg, with_payload, with_vector) ==
    [id |-> id,
     payload |-> IF with_payload THEN Some(seg.points[id].payload) ELSE None,
     vector |-> IF with_vector THEN Some(seg.points[id].vector) ELSE None]

\* read_points: the (segment, id) visits in order; within one segment the
\* ids are visited in input order.
Visits(segs, order, points) ==
    Flatten([i \in 1..Len(order) |->
               LET found == SelectSeq(points, LAMBDA id : has_point(segs[order[i]], id))
               IN [j \in 1..Len(found) |-> [seg |-> order[i], id |-> found[j]]]])

\* The visitor closure without the version comparison: the segment visited
\* last wins.
retrieve_visit_last_wins(acc, id, s, seg, with_payload, with_vector) ==
    [point_version |-> Put(acc.point_version, id, seg.version),
     point_records |-> Put(acc.point_records, id, Record(id, seg, with_payload, with_vector)),
     built_from |-> Put(acc.built_from, id, s)]

\* simple_segment_searcher.rs:87-98: the visitor closure.  acc holds
\* point_version, point_records and, for each record, the segment it was
\* built from.
retrieve_visit(acc, id, s, seg, with_payload, with_vector) ==
    IF id \notin DOMAIN acc.point_version \/ acc.point_version[id] < seg.version
    THEN [point_version |-> Put(acc.point_version, id, seg.version),
          point_records |-> Put(acc.point_records, id, Record(id, seg, with_payload, with_vector)),
          built_from |-> Put(acc.built_from, id, s)]
    ELSE acc

\* simple_segment_searcher.rs:84-100
retrieve(segs, order, points, with_payload, with_vector) ==
    LET visits == Visits(segs, order, points)
        fold[i \in 0..Len(visits)] ==
            IF i = 0
            THEN [point_version |-> <<>>, point_records |-> <<>>, built_from |-> <<>>]
            ELSE retrieve_visit(fold[i - 1], visits[i].id, visits[i].seg,
                                segs[visits[i].seg], with_payload, with_vector)
    IN fold[Len(visits)]

\* ------------------------------------------------------------------ state
\* segs:    the SegmentHolder (segment id -> segment), shared by the
\*          searcher and the updater through Arc<RwLock<SegmentHolder>>.
\* last:    the call the caller is waiting on: its arguments, the holder it
\*          was issued on (before) and what it returned; kind "none" when
\*          no call is outstanding.
\* promise: history of the upserts.  promise[id] is Some(v) when the latest
\*          Upsert or Delete that named id was an Upsert that returned Ok,
\*          paired id with v (its last pairing in the request) and was
\*          issued with op greater than every segment's version(); None
\*          otherwise.
VARIABLES segs, last, promise

collection == <<segs, last, promise>>

\* ------------------------------------------------------------------ Locks
\* spec.md 5: the holder's collection-wide RwLock and one RwLock per
\* segment, as the calls of the searcher and the updater take them.
MaxVisits == 2

Callers == {"c1", "c2"}

CallKinds == {"search", "retrieve", "update", "upsert"}

\* The (id, segment) visits of one read_points / apply_points call, as the
\* sequence of the segments visited.
VisitLists == UNION {[1..n -> SegIds] : n \in 0..MaxVisits}

\* holder_lock:  the callers holding a read guard of Arc<RwLock<SegmentHolder>>
\*               (the structural changes that would take it for write are
\*               not part of the sources).
\* segment_lock: per segment, the callers whose call holds a read guard and
\*               the caller holding the write guard.
\* call:         per caller, the call it is in and its position:
\*               kind, pc, the visits still to make, the segment
\*               random_segment() returned, the state of the search tasks,
\*               and whether the call has taken the holder's read lock.
VARIABLES holder_lock, segment_lock, call

locking == <<holder_lock, segment_lock, call>>

NoCall ==
    [kind |-> "none", pc |-> "idle", visits |-> <<>>, pick |-> "none",
     tasks |-> [s \in SegIds |-> "done"], took_holder |-> FALSE]

LocksFree ==
    /\ holder_lock = {}
    /\ segment_lock = [s \in SegIds |-> [readers |-> {}, writer |-> "none"]]
    /\ call = [c \in Callers |-> NoCall]

Idle == [kind |-> "none"]

\* The holders of at most two segments with vectors in VS, payloads in PS.
HoldersOf(VS, PS) == UNION {[H -> SegmentsOf(VS, PS)] : H \in SUBSET SegIds}

NoPromise == [id \in Ids |-> None]

\* ------------------------------------ RotatingCertificateResolver (actix)
\* certificate_helpers.rs.  Time is counted in seconds (Duration::from_secs,
\* line 167); a certified key is identified by the generation of the
\* certificate files it was loaded from.
\* Largest reading of the clock.
MaxTime == 3
\* Number of times the certificate files are replaced.
MaxGen == 2

Threads == {"t1", "t2"}

\* tls_config.cert_ttl: missing, or a number of seconds.
CertTtls == {None} \cup {Some(n) : n \in 0..2}

\* The conversion without the Some(0) arm: a TTL of zero seconds.
TtlOf_zero_seconds(cert_ttl) == cert_ttl

\* certificate_helpers.rs:165-168
TtlOf(cert_ttl) ==
    IF ~cert_ttl.some \/ cert_ttl.val = 0 THEN None ELSE Some(cert_ttl.val)

\* clock:     the monotonic clock Instant::now() reads.
\* disk:      the certificate files: their generation, and whether
\*            load_certified_key can build a key from them.
\* tls_config: RotatingCertificateResolver::tls_config (its cert_ttl).
\* ttl:       RotatingCertificateResolver::ttl.
\* key:       the CertifiedKeyWithAge inside RotatingCertificateResolver::key.
\* key_lock:  the RwLock around it: the threads holding it shared, and the
\*            thread holding it exclusively.
\* handshake: per thread, the position of its resolve call in
\*            get_key_or_refresh, with what it observed: the stored key at
\*            its shared check (seen) and at its exclusive re-check (held),
\*            whether it took the exclusive lock (excl), whether it reloaded
\*            ("no", "ok", "failed"), the stored key when it released its
\*            lock (left) and what resolve returned.
\* loaded:    the keys load_certified_key has returned so far.
VARIABLES clock, disk, tls_config, ttl, key, key_lock, handshake, loaded

resolver == <<clock, disk, tls_config, ttl, key, key_lock, handshake, loaded>>

vars == <<collection, resolver, locking>>

\* certificate_helpers.rs:109-138
load_certified_key(files) == IF files.good THEN Some(files.gen) ELSE None

\* certificate_helpers.rs:87-92
CertifiedKeyWithAge(certified_key, now) == [last_update |-> now, key |-> certified_key]

\* certificate_helpers.rs:99-101
age(k, now) == now - k.last_update

\* is_expired comparing with > in place of >=.
is_expired_strictly_older(k, now, t) == age(k, now) > t

\* certificate_helpers.rs:103-105
is_expired(k, now, t) == age(k, now) >= t

\* refresh restarting the age of the key it keeps when the load fails.
refresh_resets_age_on_failure(k, files, now) ==
    LET r == load_certified_key(files)
    IN IF r.some
       THEN [key |-> CertifiedKeyWithAge(r.val, now), ok |-> TRUE]
       ELSE [key |-> CertifiedKeyWithAge(k.key, now), ok |-> FALSE]

\* certificate_helpers.rs:94-97: the new content of *self and Ok or Err.
refresh(k, files, now) ==
    LET r == load_certified_key(files)
    IN IF r.some
       THEN [key |-> CertifiedKeyWithAge(r.val, now), ok |-> TRUE]
       ELSE [key |-> k, ok |-> FALSE]

NoKey == [last_update |-> 0, key |-> 0]

Resting ==
    [pc |-> "idle", seen |-> NoKey, held |-> NoKey, excl |-> FALSE,
     reloaded |-> "no", left |-> NoKey, result |-> None]

\* No resolver is running: the state of the resolver while the collection
\* is looked at on its own.
ResolverOff ==
    /\ clock = 0
    /\ disk = [gen |-> 0, good |-> TRUE]
    /\ tls_config = [cert_ttl |-> None]
    /\ ttl = None
    /\ key = NoKey
    /\ key_lock = [readers |-> {}, writer |-> "none"]
    /\ handshake = [t \in Threads |-> Resting]
    /\ loaded = {}

\* actix_tls_server_config and RotatingCertificateResolver::new
\* (certificate_helpers.rs:33-41, 161-173): the server starts only if the
\* first load succeeds.
ResolverNew ==
    /\ clock = 0
    /\ disk = [gen |-> 0, good |-> TRUE]
    /\ tls_config \in [cert_ttl : CertTtls]
    /\ ttl = TtlOf(tls_config.cert_ttl)
    /\ key = CertifiedKeyWithAge(load_certified_key(disk).val, clock)
    /\ key_lock = [readers |-> {}, writer |-> "none"]
    /\ handshake = [t \in Threads |-> Resting]
    /\ loaded = {load_certified_key(disk).val}

\* Time passes.
Tick ==
    /\ clock < MaxTime
    /\ clock' = clock + 1
    /\ UNCHANGED <<disk, tls_config, ttl, key, key_lock, handshake, loaded, collection, locking>>

\* The operator replaces the certificate files by a new, loadable generation.
RotateFiles ==
    /\ disk.gen < MaxGen
    /\ disk' = [gen |-> disk.gen + 1, good |-> TRUE]
    /\ UNCHANGED <<clock, tls_config, ttl, key, key_lock, handshake, loaded, collection, locking>>

\* The files are deleted or damaged: load_certified_key fails.
BreakFiles ==
    /\ disk.good
    /\ disk' = [disk EXCEPT !.good = FALSE]
    /\ UNCHANGED <<clock, tls_config, ttl, key, key_lock, handshake, loaded, collection, locking>>

\* resolve is called for a handshake (certificate_helpers.rs:72-74).
Resolve(t) ==
    /\ handshake[t].pc = "idle"
    /\ handshake' = [handshake EXCEPT ![t].pc = "read"]
    /\ UNCHANGED <<clock, disk, tls_config, ttl, key, key_lock, loaded, collection, locking>>

\* line 49: self.key.read()
ReadLock(t) ==
    /\ handshake[t].pc = "read"
    /\ key_lock.writer = "none"
    /\ key_lock' = [key_lock EXCEPT !.readers = @ \cup {t}]
    /\ handshake' = [handshake EXCEPT ![t].pc = "check"]
    /\ UNCHANGED <<clock, disk, tls_config, ttl, key, loaded, collection, locking>>

\* lines 50-54: return the stored key, or drop the shared lock to refresh.
Check(t) ==
    /\ handshake[t].pc = "check"
    /\ key_lock' = [key_lock EXCEPT !.readers = @ \ {t}]
    /\ IF ttl.some /\ is_expired(key, clock, ttl.val)
       THEN handshake' = [handshake EXCEPT ![t].pc = "write", ![t].seen = key]
       ELSE handshake' = [handshake EXCEPT ![t].pc = "done", ![t].seen = key,
                                           ![t].left = key, ![t].result = Some(key.key)]
    /\ UNCHANGED <<clock, disk, tls_config, ttl, key, loaded, collection, locking>>

\* line 60: self.key.write()
WriteLock(t) ==
    /\ handshake[t].pc = "write"
    /\ key_lock.writer = "none"
    /\ key_lock.readers = {}
    /\ key_lock' = [key_lock EXCEPT !.writer = t]
    /\ handshake' = [handshake EXCEPT ![t].pc = "recheck", ![t].excl = TRUE]
    /\ UNCHANGED <<clock, disk, tls_config, ttl, key, loaded, collection, locking>>

\* The exclusive path without the re-check: it always goes on to refresh.
Recheck_always_refreshes(t) ==
    /\ handshake[t].pc = "recheck"
    /\ handshake' = [handshake EXCEPT ![t].pc = "refresh", ![t].held = key]
    /\ UNCHANGED <<clock, disk, tls_config, ttl, key, key_lock, loaded, collection, locking>>

\* line 61: the re-check under the exclusive lock; lines 66-67 when the key
\* is no longer expired.
Recheck(t) ==
    /\ handshake[t].pc = "recheck"
    /\ IF is_expired(key, clock, ttl.val)
       THEN /\ handshake' = [handshake EXCEPT ![t].pc = "refresh", ![t].held = key]
            /\ UNCHANGED key_lock
       ELSE /\ handshake' = [handshake EXCEPT ![t].pc = "done", ![t].held = key,
                                              ![t].left = key, ![t].result = Some(key.key)]
            /\ key_lock' = [key_lock EXCEPT !.writer = "none"]
    /\ UNCHANGED <<clock, disk, tls_config, ttl, key, loaded, collection, locking>>

\* lines 62-67: refresh, log a failure, return the stored key.
Refresh(t) ==
    /\ handshake[t].pc = "refresh"
    /\ \E r \in {refresh(key, disk, clock)} :
          /\ key' = r.key
          /\ loaded' = IF r.ok THEN loaded \cup {r.key.key} ELSE loaded
          /\ handshake' = [handshake EXCEPT ![t].pc = "done",
                                            ![t].reloaded = IF r.ok THEN "ok" ELSE "failed",
                                            ![t].left = r.key,
                                            ![t].result = Some(r.key.key)]
    /\ key_lock' = [key_lock EXCEPT !.writer = "none"]
    /\ UNCHANGED <<clock, disk, tls_config, ttl, collection, locking>>

\* The handshake takes the key resolve returned.
Served(t) ==
    /\ handshake[t].pc = "done"
    /\ handshake' = [handshake EXCEPT ![t] = Resting]
    /\ UNCHANGED <<clock, disk, tls_config, ttl, key, key_lock, loaded, collection, locking>>

\* Segments are built elsewhere and registered with the holder; the
\* updater and the searcher never add or remove one.
Init ==
    /\ segs \in HoldersOf(Vectors, Payloads) /\ last = Idle /\ promise = NoPromise
    /\ ResolverOff
    /\ LocksFree

\* random_segment(): some segment of the holder, None when it is empty.
random_segment(holder) == IF DOMAIN holder = {} THEN {"none"} ELSE DOMAIN holder

\* All functions f on DOMAIN F with f[x] \in F[x].
RECURSIVE Choices(_)
Choices(F) ==
    IF DOMAIN F = {} THEN {<<>>}
    ELSE LET s == CHOOSE x \in DOMAIN F : TRUE
             rest == Choices([x \in (DOMAIN F) \ {s} |-> F[x]])
         IN {Put(g, s, v) : g \in rest, v \in F[s]}

Fresh(holder, op) == \A s \in DOMAIN holder : holder[s].version < op

\* update(op, PointOperation(UpsertPoints{ids, vectors}))
Upsert ==
    /\ last = Idle
    /\ \E op \in Ops, ids \in IdLists :
         \E vectors \in [1..Len(ids) -> Vectors], pick \in random_segment(segs) :
            \E r \in {upsert_points(segs, op, ids, vectors, pick)} :
               /\ segs' = r.segs
               /\ last' = [kind |-> "upsert", op |-> op, before |-> segs, ids |-> ids, vectors |-> vectors,
                           pick |-> pick, result |-> r.result, touched |-> r.touched]
               /\ promise' = [id \in Ids |->
                                IF id \notin Range(ids) THEN promise[id]
                                ELSE IF r.result.tag = "Ok" /\ Fresh(segs, op)
                                     THEN Some(PointsMap(ids, vectors)[id])
                                     ELSE None]
    /\ UNCHANGED <<resolver, locking>>

\* update(op, PointOperation(DeletePoints{ids}))
Delete ==
    /\ last = Idle
    /\ \E op \in Ops, ids \in IdLists :
          \E r \in {delete_points(segs, op, ids)} :
             /\ segs' = r.segs
             /\ last' = [kind |-> "delete", op |-> op, before |-> segs, ids |-> ids,
                         result |-> r.result, touched |-> r.touched]
             /\ promise' = [id \in Ids |-> IF id \in Range(ids) THEN None ELSE promise[id]]
    /\ UNCHANGED <<resolver, locking>>

\* update(op, PayloadOperation(SetPayload{payload, points}))
SetPayload ==
    /\ last = Idle
    /\ \E op \in Ops, points \in IdLists, payload \in Payloads :
          \E r \in {set_payload(segs, op, payload, points)} :
             /\ segs' = r.segs
             /\ last' = [kind |-> "set_payload", op |-> op, before |-> segs, ids |-> points, payload |-> payload,
                         result |-> r.result, touched |-> r.touched]
             /\ UNCHANGED promise
    /\ UNCHANGED <<resolver, locking>>

\* update(op, PayloadOperation(DeletePayload{keys, points}))
DeletePayload ==
    /\ last = Idle
    /\ \E op \in Ops, points \in IdLists, keys \in SeqsUpTo(Keys, 1) :
          \E r \in {delete_payload(segs, op, points, keys)} :
             /\ segs' = r.segs
             /\ last' = [kind |-> "delete_payload", op |-> op, before |-> segs, ids |-> points, keys |-> keys,
                         result |-> r.result, touched |-> r.touched]
             /\ UNCHANGED promise
    /\ UNCHANGED <<resolver, locking>>

\* update(op, PayloadOperation(ClearPayload{points}))
ClearPayload ==
    /\ last = Idle
    /\ \E op \in Ops, points \in IdLists :
          \E r \in {clear_payload(segs, op, points)} :
             /\ segs' = r.segs
             /\ last' = [kind |-> "clear_payload", op |-> op, before |-> segs, ids |-> points,
                         result |-> r.result, touched |-> r.touched]
             /\ UNCHANGED promise
    /\ UNCHANGED <<resolver, locking>>

\* update(op, PayloadOperation(WipePayload))
WipePayload ==
    /\ last = Idle
    /\ \E op \in Ops :
          \E r \in {wipe_payload(segs, op)} :
             /\ segs' = r.segs
             /\ last' = [kind |-> "wipe_payload", op |-> op, before |-> segs, ids |-> <<>>,
                         result |-> r.result, touched |-> r.touched]
             /\ UNCHANGED promise
    /\ UNCHANGED <<resolver, locking>>

\* SegmentSearcher::search of a searcher built with `distance`
Search ==
    /\ last = Idle
    /\ \E distance \in Distances, filter \in Filters, top \in 0..MaxTop :
         \E order \in Perms(DOMAIN segs), failed \in SUBSET (DOMAIN segs) :
           \E per \in Choices([s \in DOMAIN segs |-> segment_search(segs[s], filter, top, distance)]) :
             \E out \in search(order, per, failed, top, distance) :
                /\ last' = [kind |-> "search", top |-> top, distance |-> distance,
                            filter |-> filter, order |-> order, per |-> per,
                            failed |-> failed, panic |-> out.panic, list |-> out.list]
                /\ UNCHANGED <<segs, promise>>
    /\ UNCHANGED <<resolver, locking>>

\* SegmentSearcher::retrieve
Retrieve ==
    /\ last = Idle
    /\ \E points \in IdLists, with_payload \in BOOLEAN, with_vector \in BOOLEAN :
         \E order \in Perms(DOMAIN segs) :
            \E r \in {retrieve(segs, order, points, with_payload, with_vector)} :
               /\ last' = [kind |-> "retrieve", ids |-> points, with_payload |-> with_payload,
                           with_vector |-> with_vector, order |-> order,
                           records |-> r.point_records, built_from |-> r.built_from]
               /\ UNCHANGED <<segs, promise>>
    /\ UNCHANGED <<resolver, locking>>

\* The caller takes the result of its call.
Return ==
    /\ last /= Idle
    /\ last' = Idle
    /\ UNCHANGED <<segs, promise>>
    /\ UNCHANGED <<resolver, locking>>

Next ==
    \/ Upsert \/ Delete
    \/ SetPayload \/ DeletePayload \/ ClearPayload \/ WipePayload
    \/ Search \/ Retrieve
    \/ Return

\* The whole system, from any holder.
Spec == Init /\ [][Next]_vars

\* The point operations and retrieve over holders whose points carry no
\* payload (ClearPayload and WipePayload advance versions).
InitPoints ==
    /\ segs \in HoldersOf(Vectors, {EmptyPayload}) /\ last = Idle /\ promise = NoPromise
    /\ ResolverOff
    /\ LocksFree

NextPoints == Upsert \/ Delete \/ ClearPayload \/ WipePayload \/ Retrieve \/ Return

SpecPoints == InitPoints /\ [][NextPoints]_vars

\* The payload operations over holders whose points carry one vector
\* (no payload operation reads or writes a vector).
InitPayload ==
    /\ segs \in HoldersOf({Query}, Payloads) /\ last = Idle /\ promise = NoPromise
    /\ ResolverOff
    /\ LocksFree

NextPayload == SetPayload \/ DeletePayload \/ ClearPayload \/ WipePayload \/ Return

SpecPayload == InitPayload /\ [][NextPayload]_vars

\* retrieve over every holder.
NextRetrieve == Retrieve \/ Return

SpecRetrieve == Init /\ [][NextRetrieve]_vars

\* search over every holder of segments at version 0 (search reads no
\* version).
InitSearch ==
    /\ segs \in {h \in HoldersOf(Vectors, Payloads) : \A s \in DOMAIN h : h[s].version = 0}
    /\ last = Idle
    /\ promise = NoPromise
    /\ ResolverOff
    /\ LocksFree

NextSearch == Search \/ Return

SpecSearch == InitSearch /\ [][NextSearch]_vars

\* The resolver on its own, with two handshake threads; the collection is
\* an empty holder nobody calls.
InitResolver == segs = <<>> /\ last = Idle /\ promise = NoPromise /\ ResolverNew /\ LocksFree

NextResolver ==
    \/ Tick \/ RotateFiles \/ BreakFiles
    \/ \E t \in Threads :
          Resolve(t) \/ ReadLock(t) \/ Check(t) \/ WriteLock(t) \/ Recheck(t)
             \/ Refresh(t) \/ Served(t)

SpecResolver == InitResolver /\ [][NextResolver]_vars

\* ------------------------------------------------------ Calls and their locks
SegmentFree(s) == segment_lock[s].readers = {} /\ segment_lock[s].writer = "none"

HeldSegments(c) ==
    {s \in SegIds : c \in segment_lock[s].readers \/ segment_lock[s].writer = c}

WriteHeld(c) == {s \in SegIds : segment_lock[s].writer = c}

\* A caller enters search, retrieve, one of the updates that are a single
\* apply_points / apply_segments statement, or Upsert.
Call(c) ==
    /\ call[c].pc = "idle"
    /\ \E kind \in CallKinds, visits \in VisitLists :
          call' = [call EXCEPT ![c] =
                      [NoCall EXCEPT !.kind = kind, !.pc = "start",
                                     !.visits = IF kind = "search" THEN <<>> ELSE visits]]
    /\ UNCHANGED <<holder_lock, segment_lock, collection, resolver>>

\* upsert_points taking the write lock of the random segment together with
\* the holder's read lock, before apply_points.
HolderRead_locking_target(c) ==
    /\ call[c].pc = "start"
    /\ holder_lock' = holder_lock \cup {c}
    /\ IF call[c].kind = "upsert"
       THEN \E pick \in SegIds :
               /\ SegmentFree(pick)
               /\ segment_lock' = [segment_lock EXCEPT ![pick].writer = c]
       ELSE UNCHANGED segment_lock
    /\ call' = [call EXCEPT ![c].took_holder = TRUE,
                            ![c].pc = CASE call[c].kind = "search" -> "iter"
                                        [] call[c].kind = "retrieve" -> "read_points"
                                        [] OTHER -> "apply_points"]
    /\ UNCHANGED <<collection, resolver>>

\* self.segments.read().unwrap()
HolderRead(c) ==
    /\ call[c].pc = "start"
    /\ holder_lock' = holder_lock \cup {c}
    /\ call' = [call EXCEPT ![c].took_holder = TRUE,
                            ![c].pc = CASE call[c].kind = "search" -> "iter"
                                        [] call[c].kind = "retrieve" -> "read_points"
                                        [] OTHER -> "apply_points"]
    /\ UNCHANGED <<segment_lock, collection, resolver>>

\* search: one future per segment handle is collected; the holder's read
\* guard is a temporary of that statement and is dropped at its end.
SearchCollect(c) ==
    /\ call[c].pc = "iter"
    /\ holder_lock' = holder_lock \ {c}
    /\ call' = [call EXCEPT ![c].pc = "block_on",
                            ![c].tasks = [s \in SegIds |-> "ready"]]
    /\ UNCHANGED <<segment_lock, collection, resolver>>

\* search_in_segment: segment.read()
TaskRead(c, s) ==
    /\ call[c].pc = "block_on"
    /\ call[c].tasks[s] = "ready"
    /\ segment_lock[s].writer = "none"
    /\ segment_lock' = [segment_lock EXCEPT ![s].readers = @ \cup {c}]
    /\ call' = [call EXCEPT ![c].tasks[s] = "locked"]
    /\ UNCHANGED <<holder_lock, collection, resolver>>

\* search_in_segment: s.search(..), the guard dropped with the closure
TaskSearch(c, s) ==
    /\ call[c].pc = "block_on"
    /\ call[c].tasks[s] = "locked"
    /\ segment_lock' = [segment_lock EXCEPT ![s].readers = @ \ {c}]
    /\ call' = [call EXCEPT ![c].tasks[s] = "done"]
    /\ UNCHANGED <<holder_lock, collection, resolver>>

\* block_on(try_join_all(..)) has every result; search returns
SearchJoined(c) ==
    /\ call[c].pc = "block_on"
    /\ \A s \in SegIds : call[c].tasks[s] = "done"
    /\ call' = [call EXCEPT ![c] = NoCall]
    /\ UNCHANGED <<holder_lock, segment_lock, collection, resolver>>

\* read_points takes the read lock of the segment of its next visit
PointRead(c) ==
    /\ call[c].pc = "read_points"
    /\ call[c].visits # <<>>
    /\ segment_lock[Head(call[c].visits)].writer = "none"
    /\ segment_lock' = [segment_lock EXCEPT ![Head(call[c].visits)].readers = @ \cup {c}]
    /\ call' = [call EXCEPT ![c].pc = "reading"]
    /\ UNCHANGED <<holder_lock, collection, resolver>>

\* the closure of retrieve ran; read_points drops the segment's read guard
PointReadDone(c) ==
    /\ call[c].pc = "reading"
    /\ segment_lock' = [segment_lock EXCEPT ![Head(call[c].visits)].readers = @ \ {c}]
    /\ call' = [call EXCEPT ![c].pc = "read_points", ![c].visits = Tail(@)]
    /\ UNCHANGED <<holder_lock, collection, resolver>>

\* read_points returned: the holder's read guard, a temporary of the
\* statement, is dropped and retrieve returns
RetrieveDone(c) ==
    /\ call[c].pc = "read_points"
    /\ call[c].visits = <<>>
    /\ holder_lock' = holder_lock \ {c}
    /\ call' = [call EXCEPT ![c] = NoCall]
    /\ UNCHANGED <<segment_lock, collection, resolver>>

\* apply_points takes the write lock of the segment of its next visit
PointWrite(c) ==
    /\ call[c].pc = "apply_points"
    /\ call[c].visits # <<>>
    /\ SegmentFree(Head(call[c].visits))
    /\ segment_lock' = [segment_lock EXCEPT ![Head(call[c].visits)].writer = c]
    /\ call' = [call EXCEPT ![c].pc = "mutating"]
    /\ UNCHANGED <<holder_lock, collection, resolver>>

\* mutate ran; apply_points drops the segment's write guard
PointWriteDone(c) ==
    /\ call[c].pc = "mutating"
    /\ segment_lock' = [segment_lock EXCEPT ![Head(call[c].visits)].writer = "none"]
    /\ call' = [call EXCEPT ![c].pc = "apply_points", ![c].visits = Tail(@)]
    /\ UNCHANGED <<holder_lock, collection, resolver>>

\* delete_points, set_payload, delete_payload, clear_payload, wipe_payload:
\* the holder's read guard is a temporary of the apply_points statement
UpdateDone(c) ==
    /\ call[c].kind = "update"
    /\ call[c].pc = "apply_points"
    /\ call[c].visits = <<>>
    /\ holder_lock' = holder_lock \ {c}
    /\ call' = [call EXCEPT ![c] = NoCall]
    /\ UNCHANGED <<segment_lock, collection, resolver>>

\* upsert_points: segments.random_segment() after apply_points returned
UpsertPick(c) ==
    /\ call[c].kind = "upsert"
    /\ call[c].pc = "apply_points"
    /\ call[c].visits = <<>>
    /\ \E pick \in SegIds :
          call' = [call EXCEPT ![c].pc = "random_segment", ![c].pick = pick]
    /\ UNCHANGED <<holder_lock, segment_lock, collection, resolver>>

\* upsert_points: segment.write().unwrap()
UpsertWrite(c) ==
    /\ call[c].pc = "random_segment"
    /\ SegmentFree(call[c].pick)
    /\ segment_lock' = [segment_lock EXCEPT ![call[c].pick].writer = c]
    /\ call' = [call EXCEPT ![c].pc = "insert"]
    /\ UNCHANGED <<holder_lock, collection, resolver>>

\* upsert_points returning while the write guard of the random segment is
\* kept (leaked).
UpsertDone_keeping_write_guard(c) ==
    /\ call[c].pc = "insert"
    /\ holder_lock' = holder_lock \ {c}
    /\ call' = [call EXCEPT ![c] = NoCall]
    /\ UNCHANGED <<segment_lock, collection, resolver>>

\* upsert_points: the residual ids are written, both guards are dropped and
\* Ok(res) is returned
UpsertDone(c) ==
    /\ call[c].pc = "insert"
    /\ segment_lock' = [segment_lock EXCEPT ![call[c].pick].writer = "none"]
    /\ holder_lock' = holder_lock \ {c}
    /\ call' = [call EXCEPT ![c] = NoCall]
    /\ UNCHANGED <<collection, resolver>>

InitLocks == segs = <<>> /\ last = Idle /\ promise = NoPromise /\ ResolverOff /\ LocksFree

NextLocks ==
    \E c \in Callers :
       \/ Call(c) \/ HolderRead(c)
       \/ SearchCollect(c) \/ SearchJoined(c)
       \/ \E s \in SegIds : TaskRead(c, s) \/ TaskSearch(c, s)
       \/ PointRead(c) \/ PointReadDone(c) \/ RetrieveDone(c)
       \/ PointWrite(c) \/ PointWriteDone(c) \/ UpdateDone(c)
       \/ UpsertPick(c) \/ UpsertWrite(c) \/ UpsertDone(c)

SpecLocks == InitLocks /\ [][NextLocks]_vars

\* Fair scheduling: a caller that can take its next step, and each search
\* task that can, eventually does.  Entering a call is under no obligation.
FairLocks ==
    \A c \in Callers :
       /\ WF_vars(HolderRead(c))
       /\ WF_vars(SearchCollect(c)) /\ WF_vars(SearchJoined(c))
       /\ \A s \in SegIds : WF_vars(TaskRead(c, s)) /\ WF_vars(TaskSearch(c, s))
       /\ WF_vars(PointRead(c)) /\ WF_vars(PointReadDone(c)) /\ WF_vars(RetrieveDone(c))
       /\ WF_vars(PointWrite(c)) /\ WF_vars(PointWriteDone(c)) /\ WF_vars(UpdateDone(c))
       /\ WF_vars(UpsertPick(c)) /\ WF_vars(UpsertWrite(c)) /\ WF_vars(UpsertDone(c))

SpecLocksFair == SpecLocks /\ FairLocks

\* ------------------------------------------------ failing segment calls
\* A segment call returns Err (I/O on the segment): `broken` is the set of
\* segments whose calls fail during one operation.
SegmentError == [tag |-> "SegmentError", val |-> 0]

\* simple_segment_searcher.rs:89-97 with the reads of lines 92-93 failing
\* in the segments of `broken`: the `?` leaves the closure with Err before
\* anything is inserted.
retrieve_visit_result(acc, id, s, seg, with_payload, with_vector, broken) ==
    IF /\ id \notin DOMAIN acc.point_version \/ acc.point_version[id] < seg.version
       /\ with_payload \/ with_vector
       /\ s \in broken
    THEN [ok |-> FALSE, acc |-> acc]
    ELSE [ok |-> TRUE, acc |-> retrieve_visit(acc, id, s, seg, with_payload, with_vector)]

\* read_points with a visitor that may return Err: the first Err ends the
\* walk and is what read_points returns (spec.md 7).
read_points_retrieve(holder, order, points, with_payload, with_vector, broken) ==
    LET visits == Visits(holder, order, points)
        fold[i \in 0..Len(visits)] ==
            IF i = 0
            THEN [ok |-> TRUE,
                  acc |-> [point_version |-> <<>>, point_records |-> <<>>, built_from |-> <<>>]]
            ELSE IF ~fold[i - 1].ok
                 THEN fold[i - 1]
                 ELSE retrieve_visit_result(fold[i - 1].acc, visits[i].id, visits[i].seg,
                                            holder[visits[i].seg], with_payload, with_vector,
                                            broken)
    IN fold[Len(visits)]

\* simple_segment_searcher.rs:84-100 with failing reads: the value of
\* read_points(..) is dropped at the `;` of line 98 and the Records
\* collected so far are returned.  read_error says whether read_points
\* returned Err, surfaced whether the caller is given an error.
retrieve_with_read_errors(holder, order, points, with_payload, with_vector, broken) ==
    LET r == read_points_retrieve(holder, order, points, with_payload, with_vector, broken)
    IN [records |-> r.acc.point_records, read_error |-> ~r.ok, surfaced |-> FALSE]

\* The (segment, id) visits of apply_points: the segments in the holder's
\* order, those with version() >= op skipped, ids in input order.
MutationVisits(holder, op, order, ids) ==
    Flatten([i \in 1..Len(order) |->
               IF holder[order[i]].version >= op
               THEN <<>>
               ELSE LET found == SelectSeq(ids, LAMBDA id : has_point(holder[order[i]], id))
                    IN [j \in 1..Len(found) |-> [seg |-> order[i], id |-> found[j]]]])

\* apply_points running the closure of set_payload
\* (simple_segment_updater.rs:81-88) when write_segment.set_payload fails in
\* the segments of `broken`: the closure has recorded the id (line 82), the
\* `?` of line 85 returns the Err, and apply_points stops there.
apply_points_set_payload(holder, op, payload, points, order, broken) ==
    LET visits == MutationVisits(holder, op, order, points)
        fold[i \in 0..Len(visits)] ==
            IF i = 0
            THEN [views |-> Views(holder), count |-> 0, touched |-> {}, err |-> FALSE]
            ELSE IF fold[i - 1].err
                 THEN fold[i - 1]
                 ELSE IF visits[i].seg \in broken /\ DOMAIN payload /= {}
                      THEN [fold[i - 1] EXCEPT !.err = TRUE,
                                               !.touched = @ \cup {visits[i].id}]
                      ELSE LET r == set_payload_closure(fold[i - 1].views[visits[i].seg], op,
                                                        visits[i].id, payload, DOMAIN payload)
                           IN [views |-> [fold[i - 1].views EXCEPT ![visits[i].seg] = r.w],
                               count |-> fold[i - 1].count + (IF r.res THEN 1 ELSE 0),
                               touched |-> fold[i - 1].touched \cup {visits[i].id},
                               err |-> FALSE]
    IN fold[Len(visits)]

\* simple_segment_updater.rs:73-92 with failing segment calls: the `?` of
\* line 88 returns the error of apply_points.
set_payload_with_errors(holder, op, payload, points, order, broken) ==
    LET a == apply_points_set_payload(holder, op, payload, points, order, broken)
    IN [segs |-> CommitAll(a.views, op),
        result |-> IF a.err THEN SegmentError ELSE CheckedResult(points, a),
        touched |-> a.touched,
        callback_error |-> a.err]

\* SegmentSearcher::retrieve while the reads of some segments fail.
RetrieveFailing ==
    /\ last = Idle
    /\ \E points \in IdLists, with_payload \in BOOLEAN, with_vector \in BOOLEAN :
         \E order \in Perms(DOMAIN segs), broken \in SUBSET (DOMAIN segs) :
            \E r \in {retrieve_with_read_errors(segs, order, points, with_payload,
                                                with_vector, broken)} :
               last' = [kind |-> "retrieve", ids |-> points, with_payload |-> with_payload,
                        with_vector |-> with_vector, order |-> order, broken |-> broken,
                        records |-> r.records, callback_error |-> r.read_error,
                        surfaced |-> r.surfaced]
    /\ UNCHANGED <<segs, promise>>
    /\ UNCHANGED <<resolver, locking>>

\* update(op, SetPayload{payload, points}) while the calls of some segments
\* fail.
SetPayloadFailing ==
    /\ last = Idle
    /\ \E op \in Ops, points \in IdLists, payload \in Payloads :
         \E order \in Perms(DOMAIN segs), broken \in SUBSET (DOMAIN segs) :
            \E r \in {set_payload_with_errors(segs, op, payload, points, order, broken)} :
               /\ segs' = r.segs
               /\ last' = [kind |-> "set_payload", op |-> op, before |-> segs, ids |-> points,
                           payload |-> payload, order |-> order, broken |-> broken,
                           result |-> r.result, touched |-> r.touched,
                           callback_error |-> r.callback_error,
                           surfaced |-> r.result = SegmentError]
    /\ UNCHANGED promise
    /\ UNCHANGED <<resolver, locking>>

\* retrieve and SetPayload over holders whose segment calls may fail.
NextFailing == RetrieveFailing \/ SetPayloadFailing \/ Return

SpecFailing == InitPayload /\ [][NextFailing]_vars

\* ------------------------------------------------------------------ claims
Containing(id) == {s \in DOMAIN segs : has_point(segs[s], id)}

\* C1: for every id passed to retrieve that some segment contains, the
\* returned Record is built from a segment whose version() is the maximum
\* among the segments containing the id, whatever order the segments are
\* visited in.
C1_RetrieveMaxVersion ==
    last.kind = "retrieve" =>
        \A id \in Range(last.ids) :
            Containing(id) /= {} =>
                /\ id \in DOMAIN last.records
                /\ last.built_from[id] \in Containing(id)
                /\ \A t \in Containing(id) : segs[t].version <= segs[last.built_from[id]].version
                /\ last.records[id] =
                      Record(id, segs[last.built_from[id]], last.with_payload, last.with_vector)

\* A retrieve that visited a segment holding an older copy of the id first
\* and replaced the record when it reached the newer segment.
C1_Witness ==
    /\ last.kind = "retrieve"
    /\ last.with_vector
    /\ \E id \in Range(last.ids) :
          /\ Containing(id) = {"A", "B"}
          /\ segs[last.order[1]].version < segs[last.order[2]].version
          /\ segs["A"].points[id].vector /= segs["B"].points[id].vector
          /\ last.built_from[id] = last.order[2]

\* What retrieve([id], false, true) returns for id under the visit order.
RetrievedVector(order, id) ==
    LET r == retrieve(segs, order, <<id>>, FALSE, TRUE)
    IN IF id \in DOMAIN r.point_records THEN r.point_records[id].vector ELSE None

UpdateKinds ==
    {"upsert", "delete", "set_payload", "delete_payload", "clear_payload", "wipe_payload"}

PayloadKinds == {"set_payload", "delete_payload", "clear_payload"}

\* The holder after the update of `last` is issued once more on the current
\* holder, with the same op and the same arguments; pick is what
\* random_segment() returns in the second application.
Replayed(pick) ==
    CASE last.kind = "upsert" ->
            upsert_points(segs, last.op, last.ids, last.vectors, pick).segs
      [] last.kind = "delete" -> delete_points(segs, last.op, last.ids).segs
      [] last.kind = "set_payload" -> set_payload(segs, last.op, last.payload, last.ids).segs
      [] last.kind = "delete_payload" -> delete_payload(segs, last.op, last.ids, last.keys).segs
      [] last.kind = "clear_payload" -> clear_payload(segs, last.op, last.ids).segs
      [] last.kind = "wipe_payload" -> wipe_payload(segs, last.op).segs

\* C3: applying an update operation a second time with the same op and the
\* same arguments leaves the contents and the version of every segment as
\* they were after the first application, whatever random_segment() picks.
C3_IdempotentUnderOp ==
    last.kind \in UpdateKinds =>
        \A pick \in random_segment(segs) : Replayed(pick) = segs

\* The ids the update of `last` named that some segment was visited for: the
\* segment contained the id and its version() was below op when the call
\* was issued.
VisitedIds ==
    {id \in Range(last.ids) :
        \E s \in DOMAIN last.before :
            has_point(last.before[s], id) /\ last.before[s].version < last.op}

\* C4: a payload operation returns either NotFound{x} with x one of its ids
\* and x contained in no segment, or it visited every id in some segment;
\* NotFound is never returned for an id that some segment contains.
C4_NotFoundOnlyUnknown ==
    last.kind \in PayloadKinds =>
        IF last.result.tag = "NotFound"
        THEN last.result.val \in Range(last.ids) /\ Containing(last.result.val) = {}
        ELSE Range(last.ids) \subseteq VisitedIds

\* C5: a payload operation that fails with NotFound names the first id of
\* its input list, in input order, that no segment touched; when every id
\* was touched it returns Ok.
C5_FirstMissingInOrder ==
    last.kind \in PayloadKinds =>
        LET missing == {i \in 1..Len(last.ids) : last.ids[i] \notin VisitedIds}
        IN IF missing = {}
           THEN last.result.tag = "Ok"
           ELSE /\ last.result.tag = "NotFound"
                /\ \E i \in missing :
                      /\ last.result.val = last.ids[i]
                      /\ \A j \in 1..(i - 1) : last.ids[j] \in VisitedIds

\* A NotFound naming the second id of the list after the first was touched.
C5_Witness ==
    /\ last.kind \in PayloadKinds
    /\ last.result.tag = "NotFound"
    /\ Len(last.ids) = 2
    /\ last.ids[1] \in VisitedIds
    /\ last.result.val = last.ids[2]

\* C6: a SetPayload issued with op greater than the version of every segment
\* that returns NotFound has applied the payload map to every requested id
\* a segment contains, in each such segment, and left everything else of
\* the segments' contents as it was.
C6_PartialSuccessVisible ==
    (last.kind = "set_payload" /\ last.result.tag = "NotFound" /\ Fresh(last.before, last.op)) =>
        /\ DOMAIN segs = DOMAIN last.before
        /\ \A s \in DOMAIN segs :
              /\ DOMAIN segs[s].points = DOMAIN last.before[s].points
              /\ \A id \in DOMAIN segs[s].points :
                    /\ segs[s].points[id].vector = last.before[s].points[id].vector
                    /\ \A k \in Keys :
                          IF id \in Range(last.ids) /\ k \in DOMAIN last.payload
                          THEN /\ k \in DOMAIN segs[s].points[id].payload
                               /\ segs[s].points[id].payload[k] = last.payload[k]
                          ELSE /\ k \in DOMAIN segs[s].points[id].payload
                                    <=> k \in DOMAIN last.before[s].points[id].payload
                               /\ k \in DOMAIN segs[s].points[id].payload =>
                                    segs[s].points[id].payload[k]
                                       = last.before[s].points[id].payload[k]

\* A SetPayload on fresh segments that returned NotFound for one id after
\* giving the key to a point of both segments that did not carry it.
C6_Witness ==
    /\ last.kind = "set_payload"
    /\ last.result.tag = "NotFound"
    /\ Fresh(last.before, last.op)
    /\ DOMAIN segs = {"A", "B"}
    /\ \E id \in Range(last.ids) : \E k \in DOMAIN last.payload :
          \A s \in DOMAIN segs :
             /\ has_point(segs[s], id)
             /\ k \notin DOMAIN last.before[s].points[id].payload
             /\ segs[s].points[id].payload[k] = last.payload[k]

\* The concatenation of the per-segment result lists of the search of
\* `last`, in the order the holder iterated its segments.
Concatenation == Flatten([i \in 1..Len(last.order) |-> last.per[last.order[i]]])

FirstOccurrence(id) ==
    Concatenation[CHOOSE i \in 1..Len(Concatenation) :
                     /\ Concatenation[i].idx = id
                     /\ \A j \in 1..(i - 1) : Concatenation[j].idx /= id]

DistinctIds == {Concatenation[i].idx : i \in 1..Len(Concatenation)}

\* C7: the ids a search returns are pairwise distinct, also when more than
\* one segment returned the point, and the entry kept for an id is its first
\* occurrence in the concatenation of the per-segment result lists.
C7_DedupFirstOccurrence ==
    (last.kind = "search" /\ ~last.panic) =>
        /\ \A i, j \in 1..Len(last.list) : i /= j => last.list[i].idx /= last.list[j].idx
        /\ \A i \in 1..Len(last.list) :
              /\ last.list[i].idx \in DistinctIds
              /\ last.list[i] = FirstOccurrence(last.list[i].idx)

\* A search in which both segments returned the same id with different
\* scores and the result carries the id.
C7_Witness ==
    /\ last.kind = "search"
    /\ ~last.panic
    /\ Len(last.order) = 2
    /\ \E i \in 1..Len(last.list) :
          \E a \in 1..Len(last.per[last.order[1]]), b \in 1..Len(last.per[last.order[2]]) :
             /\ last.per[last.order[1]][a].idx = last.list[i].idx
             /\ last.per[last.order[2]][b].idx = last.list[i].idx
             /\ last.per[last.order[1]][a].score /= last.per[last.order[2]][b].score

\* C8: the result has length min(top, number of distinct ids in the
\* per-segment results); no point of the deduplicated union left out of the
\* result scores strictly better than a point in it under the configured
\* distance; the result is ordered best first.
C8_GlobalTopK ==
    (last.kind = "search" /\ ~last.panic) =>
        /\ Len(last.list) = Min(last.top, Cardinality(DistinctIds))
        /\ \A id \in DistinctIds \ {last.list[i].idx : i \in 1..Len(last.list)} :
              \A i \in 1..Len(last.list) :
                 ~Better(FirstOccurrence(id), last.list[i], last.distance)
        /\ \A i, j \in 1..Len(last.list) :
              i < j => ~Better(last.list[j], last.list[i], last.distance)

\* A search whose two segments returned three entries of two distinct ids,
\* with different scores, cut to the better one by top = 1.
C8_Witness ==
    /\ last.kind = "search"
    /\ ~last.panic
    /\ last.top = 1
    /\ Len(last.list) = 1
    /\ Cardinality(DistinctIds) = 2
    /\ Len(Concatenation) = 2
    /\ \E id \in DistinctIds :
          Better(last.list[1], FirstOccurrence(id), last.distance)

\* C9: when a per-segment search task fails the search is aborted and the
\* failure reaches the caller; no result list is returned, in particular
\* none built from the segments that succeeded.
C9_TaskFailureAborts ==
    (last.kind = "search" /\ last.failed /= {}) => last.panic /\ last.list = <<>>

\* A search in which one task failed and the other answered a non-empty
\* list.
C9_Witness ==
    /\ last.kind = "search"
    /\ last.panic
    /\ \E s \in last.failed : \E t \in DOMAIN segs \ last.failed : last.per[t] /= <<>>

\* The ids of the Upsert of `last` that no segment was visited for.
UntouchedIds == Range(last.ids) \ VisitedIds

RemovedPairs ==
    {p \in Range(last.ids) \X DOMAIN last.before :
        has_point(last.before[p[2]], p[1]) /\ ~has_point(segs[p[2]], p[1])}

\* C11: Delete never fails because an id is absent: it returns Ok with the
\* number of (id, segment) pairs whose point delete_point removed, and a
\* Delete of ids no segment contains returns Ok(0) and leaves every segment
\* unchanged.
C11_DeleteCountsRemovals ==
    last.kind = "delete" =>
        /\ last.result = Ok(Cardinality(RemovedPairs))
        /\ (\A id \in Range(last.ids) : \A s \in DOMAIN last.before :
               ~has_point(last.before[s], id))
              => last.result = Ok(0) /\ segs = last.before

\* A Delete naming an id both segments held and an id no segment held: the
\* count is 2.
C11_Witness ==
    /\ last.kind = "delete"
    /\ last.result = Ok(2)
    /\ DOMAIN segs = {"A", "B"}
    /\ \E id \in Range(last.ids) : \A s \in DOMAIN segs : has_point(last.before[s], id)
    /\ \E id \in Range(last.ids) : \A s \in DOMAIN segs : ~has_point(last.before[s], id)

\* No TTL is in effect: cert_ttl is missing or 0.
NoTtl == ~tls_config.cert_ttl.some \/ tls_config.cert_ttl.val = 0

\* C12: with a TTL configured, a handshake that finds the stored key's age
\* at or beyond the TTL goes on to reload it from disk; a successful reload
\* stores the key read from the files with age zero and returns it, a failed
\* one leaves the stored key unchanged and returns it; a handshake that
\* finds the key unexpired returns the stored key, which only a successful
\* reload replaces.  resolve always returns a key, and every key returned
\* was loaded at construction or by a successful reload.
C12_RefreshOnExpiry ==
    [][\A t \in Threads :
          LET h == handshake[t]
              h2 == handshake'[t]
          IN /\ (h.pc = "check" /\ h2.pc /= "check"
                    /\ ttl.some /\ clock - key.last_update >= ttl.val)
                   => h2.pc = "write"
             /\ (h.pc = "recheck" /\ h2.pc /= "recheck"
                    /\ clock - key.last_update >= ttl.val)
                   => h2.pc = "refresh"
             /\ (h.pc = "refresh" /\ h2.pc /= "refresh") =>
                   /\ h2.pc = "done"
                   /\ IF disk.good
                      THEN /\ key' = [last_update |-> clock, key |-> disk.gen]
                           /\ loaded' = loaded \cup {disk.gen}
                      ELSE key' = key /\ loaded' = loaded
                   /\ h2.result = Some(key'.key)
             /\ (h.pc = "check" /\ h2.pc = "done") => h2.result = Some(key.key)
             /\ h2.pc = "done" => h2.result.some /\ h2.result.val \in loaded'
             /\ key' /= key => \E u \in Threads : handshake[u].pc = "refresh" /\ disk.good
    ]_vars

\* One handshake reloaded and returned a key other than the one it had found
\* expired; after the files broke, the other handshake's reload failed and
\* it returned the key it found stored.
C12_Witness ==
    /\ handshake["t1"].pc = "done"
    /\ handshake["t1"].reloaded = "ok"
    /\ handshake["t1"].result /= Some(handshake["t1"].seen.key)
    /\ handshake["t2"].pc = "done"
    /\ handshake["t2"].reloaded = "failed"
    /\ handshake["t2"].result = Some(handshake["t2"].held.key)
    /\ key = handshake["t2"].held

\* C13: a handshake made when no TTL is in effect (cert_ttl missing or 0) or
\* when the stored key's age is below the TTL holds the shared lock only,
\* returns the stored key, performs no reload and leaves the stored key and
\* its load time unchanged; with no TTL in effect the key loaded at
\* construction stays stored and every handshake returns it.
C13_FastPath ==
    [][\A t \in Threads :
          LET h == handshake[t]
              h2 == handshake'[t]
              fast == NoTtl \/ clock - key.last_update < tls_config.cert_ttl.val
          IN /\ (h.pc = "check" /\ h2.pc /= "check" /\ fast) =>
                   /\ t \in key_lock.readers
                   /\ key_lock.writer = "none"
                   /\ key_lock'.writer = "none"
                   /\ h2.pc = "done"
                   /\ h2.result = Some(key.key)
                   /\ ~h2.excl
                   /\ h2.reloaded = "no"
                   /\ key' = key
                   /\ loaded' = loaded
             /\ NoTtl =>
                   /\ key' = CertifiedKeyWithAge(0, 0)
                   /\ h2.pc = "done" => h2.result = Some(0) /\ ~h2.excl
    ]_vars

\* cert_ttl is 0, time has passed and the files were replaced: a handshake
\* has returned the key loaded at construction.
C13_Witness ==
    /\ tls_config.cert_ttl = Some(0)
    /\ clock >= 1
    /\ disk.gen >= 1
    /\ \E t \in Threads : handshake[t].pc = "done" /\ handshake[t].result = Some(0)

\* C14 as stated: a handshake that acquires the exclusive lock after another
\* handshake's successful refresh of the key it had found expired returns
\* the stored key without reloading.
C14_Original ==
    [][\A t \in Threads :
          LET h == handshake[t]
              h2 == handshake'[t]
          IN (h.pc = "recheck" /\ h2.pc /= "recheck" /\ key /= h.seen) =>
                /\ h2.pc = "done"
                /\ h2.reloaded = "no"
                /\ h2.result = Some(key.key)
                /\ key' = key
    ]_vars

\* C14 amended: a handshake that acquires the exclusive lock after another
\* handshake's successful refresh, while the refreshed key's age is still
\* below the TTL, returns the refreshed key without reloading; at most one
\* handshake is between its re-check and the end of its reload at a time;
\* and while no handshake wants or holds the exclusive lock, nothing keeps a
\* handshake from the shared lock.
C14_SingleRefresh ==
    [][\A t \in Threads :
          LET h == handshake[t]
              h2 == handshake'[t]
          IN /\ (h.pc = "recheck" /\ h2.pc /= "recheck" /\ key /= h.seen
                    /\ clock - key.last_update < ttl.val) =>
                   /\ h2.pc = "done"
                   /\ h2.reloaded = "no"
                   /\ h2.result = Some(key.key)
                   /\ key' = key
                   /\ loaded' = loaded
             /\ \A u \in Threads \ {t} :
                   ~(h2.pc \in {"recheck", "refresh"}
                       /\ handshake'[u].pc \in {"recheck", "refresh"})
             /\ (\A u \in Threads : handshake'[u].pc \notin {"write", "recheck", "refresh"})
                   => key_lock'.writer = "none"
    ]_vars

\* Both handshakes found the same key expired; the first reloaded it, the
\* second took the exclusive lock afterwards and returned the refreshed key
\* without reloading.
C14_Witness ==
    /\ handshake["t1"].pc = "done"
    /\ handshake["t2"].pc = "done"
    /\ handshake["t1"].excl
    /\ handshake["t2"].excl
    /\ handshake["t1"].seen = handshake["t2"].seen
    /\ handshake["t1"].reloaded = "ok"
    /\ handshake["t2"].reloaded = "no"
    /\ handshake["t2"].result = handshake["t1"].result
    /\ handshake["t2"].result /= Some(handshake["t2"].seen.key)

\* C15: retrieve returns one Record for each distinct requested id that some
\* segment contains and none for an id no segment contains; a Record's
\* payload is present iff with_payload and its vector iff with_vector.
C15_RetrieveRecords ==
    last.kind = "retrieve" =>
        /\ DOMAIN last.records = {id \in Range(last.ids) : Containing(id) /= {}}
        /\ \A id \in DOMAIN last.records :
              /\ last.records[id].id = id
              /\ last.records[id].payload.some <=> last.with_payload
              /\ last.records[id].vector.some <=> last.with_vector

\* A retrieve of an id both segments contain and an id no segment contains,
\* asking for the payload and not for the vector.
C15_Witness ==
    /\ last.kind = "retrieve"
    /\ Len(last.ids) = 2
    /\ Containing(last.ids[1]) = {"A", "B"}
    /\ Containing(last.ids[2]) = {}
    /\ last.with_payload
    /\ ~last.with_vector
    /\ DOMAIN last.records = {last.ids[1]}

\* C16: a segment error raised inside a read_points or apply_points callback
\* ends the enclosing operation at once and the caller is given the error:
\* retrieve returns no list of Records after a failed read, and a SetPayload
\* whose segment call failed returns the error and has written to no
\* segment from the failing one on.
C16_SegmentErrorsSurface ==
    (last.kind \in {"retrieve", "set_payload"} /\ last.callback_error) =>
        /\ last.surfaced
        /\ last.kind = "set_payload" =>
              \A i, j \in 1..Len(last.order) :
                 (i <= j /\ last.order[i] \in last.broken
                    /\ last.before[last.order[i]].version < last.op
                    /\ \E id \in Range(last.ids) : has_point(last.before[last.order[i]], id))
                   => segs[last.order[j]] = last.before[last.order[j]]

\* C17: an Upsert writes an id into the segment random_segment() chose only
\* if no segment contained the id; an id some segment already contains is
\* never inserted into a segment that did not contain it, so the number of
\* segments holding it does not grow.
C17_UpsertRouting ==
    last.kind = "upsert" =>
        \A id \in Range(last.ids) :
            (\E s \in DOMAIN last.before : has_point(last.before[s], id)) =>
                \A s \in DOMAIN segs : has_point(segs[s], id) => has_point(last.before[s], id)

\* The visits of apply_points in the Upsert of `last`: a position of the id
\* list and a segment that contained the id there with version() below op.
UpsertVisits ==
    {p \in (1..Len(last.ids)) \X DOMAIN last.before :
        /\ has_point(last.before[p[2]], last.ids[p[1]])
        /\ last.before[p[2]].version < last.op}

C20_LockDiscipline ==
    [][\A c \in Callers :
          /\ HeldSegments(c)' # {} => call'[c].took_holder
          /\ (c \notin holder_lock /\ c \in holder_lock') =>
                (HeldSegments(c) = {} /\ HeldSegments(c)' = {})
          /\ Cardinality(WriteHeld(c)') <= 1
          /\ (call[c].pc = "random_segment" /\ call'[c].pc = "insert") =>
                (HeldSegments(c) = {} /\ WriteHeld(c)' = {call[c].pick})]_vars

\* An Upsert holds the write lock of the random_segment() target for its
\* residual inserts, still under the holder's read lock, while a search of
\* the other caller, its holder guard dropped, reads another segment and
\* has a task waiting for the target.
C20_Witness ==
    \E c, d \in Callers :
       /\ call[c].kind = "upsert" /\ call[c].pc = "insert"
       /\ c \in holder_lock
       /\ WriteHeld(c) = {call[c].pick}
       /\ call[d].kind = "search" /\ call[d].pc = "block_on"
       /\ d \notin holder_lock
       /\ call[d].tasks[call[c].pick] = "ready"
       /\ \E s \in SegIds \ {call[c].pick} : d \in segment_lock[s].readers

\* A call that is at a lock it cannot take now: read_points or a search with
\* only tasks left whose segment is write-locked, apply_points or Upsert's
\* residual insert at a segment that is not free.  The holder's read lock is
\* never refused.
Waiting(c) ==
    \/ /\ call[c].pc = "read_points" /\ call[c].visits # <<>>
       /\ segment_lock[Head(call[c].visits)].writer # "none"
    \/ /\ call[c].pc = "apply_points" /\ call[c].visits # <<>>
       /\ ~SegmentFree(Head(call[c].visits))
    \/ /\ call[c].pc = "random_segment"
       /\ ~SegmentFree(call[c].pick)
    \/ /\ call[c].pc = "block_on"
       /\ \E s \in SegIds : call[c].tasks[s] # "done"
       /\ \A s \in SegIds : call[c].tasks[s] # "done" =>
             (call[c].tasks[s] = "ready" /\ segment_lock[s].writer # "none")

Running(c) == call[c].pc # "idle"

\* C21: no reachable state has every running call waiting for a lock, and
\* when only finitely many calls are entered, under fair scheduling every
\* call that was entered returns.
C21_DeadlockFreedom ==
    /\ []((\E c \in Callers : Running(c)) =>
             \E c \in Callers : Running(c) /\ ~Waiting(c))
    /\ ([]<><<\E c \in Callers : Call(c)>>_vars
           \/ \A c \in Callers : Running(c) ~> ~Running(c))

\* An Upsert waits for the write lock of its random_segment() target, which
\* the apply_points of the other caller's update holds.
C21_Witness ==
    \E c, d \in Callers :
       /\ call[c].kind = "upsert" /\ call[c].pc = "random_segment"
       /\ Waiting(c)
       /\ call[d].kind \in {"update", "upsert"} /\ call[d].pc = "mutating"
       /\ segment_lock[call[c].pick].writer = d

\* A handshake's reload failed and the key it left is still the stored one.
AfterFailedRefresh ==
    \E u \in Threads :
       /\ handshake[u].pc = "done"
       /\ handshake[u].reloaded = "failed"
       /\ handshake[u].left = key

\* C22: a failed reload leaves the stored key and its load time as they
\* were, so the key is still expired; an expired key stays expired until it
\* is replaced; after a failed reload every handshake that checks the key
\* takes the exclusive lock and, at its re-check, goes on to reload again;
\* and the stored key or its load time change only in a successful reload,
\* which stores the key read from the files with age zero.
C22_FailedRefreshKeepsAge ==
    [][/\ \A t \in Threads :
             LET h == handshake[t]
                 h2 == handshake'[t]
             IN /\ (h.pc = "refresh" /\ h2.pc = "done" /\ ~disk.good) =>
                      /\ h2.reloaded = "failed"
                      /\ key'.key = key.key
                      /\ key'.last_update = key.last_update
                      /\ clock' - key'.last_update >= ttl.val
                      /\ h2.result = Some(key.key)
                /\ AfterFailedRefresh =>
                      /\ (h.pc = "check" /\ h2.pc /= "check") =>
                            (h2.pc = "write" /\ ~h2.result.some)
                      /\ (h.pc = "write" /\ h2.pc /= "write") =>
                            (h2.pc = "recheck" /\ key_lock'.writer = t)
                      /\ (h.pc = "recheck" /\ h2.pc /= "recheck") =>
                            h2.pc = "refresh"
       /\ AfterFailedRefresh => (ttl.some /\ clock - key.last_update >= ttl.val)
       /\ (ttl.some /\ clock - key.last_update >= ttl.val /\ key' = key) =>
             clock' - key'.last_update >= ttl.val
       /\ key' /= key =>
             \E u \in Threads :
                /\ handshake[u].pc = "refresh"
                /\ handshake'[u].reloaded = "ok"
                /\ disk.good
                /\ key'.key = disk.gen
                /\ clock' - key'.last_update = 0
    ]_vars

\* One handshake's reload failed and it returned the old key; after the
\* files were replaced the other handshake found that same key expired,
\* reloaded it and returned the new key, whose age is zero.
C22_Witness ==
    /\ handshake["t1"].pc = "done"
    /\ handshake["t1"].reloaded = "failed"
    /\ handshake["t1"].result = Some(handshake["t1"].left.key)
    /\ handshake["t2"].pc = "done"
    /\ handshake["t2"].reloaded = "ok"
    /\ handshake["t2"].held = handshake["t1"].left
    /\ handshake["t2"].result /= handshake["t1"].result
    /\ key = handshake["t2"].left
    /\ clock - key.last_update = 0

=============================================================================
